---- MODULE Spec2Model ----
(***************************************************************************)
(* Membership automation service: the HTTP handlers of app.py, the two    *)
(* workflows they run (process_record with ensure_logged_in for /debug,   *)
(* the unified flow of unified_flow.py for /process), the concurrency     *)
(* semaphore and the session file kept by StorageStateManager.             *)
(*                                                                         *)
(* Every awaited browser call may succeed, time out or raise; the model    *)
(* draws the outcome with \E.  A run's local state is the record run[t].   *)
(***************************************************************************)
EXTENDS Integers, Sequences, FiniteSets, TLC

\* Number of HTTP requests the model sends to the service.
NumReqs == 2

\* MAX_CONCURRENCY when the environment does not set it.
DefaultMaxConcurrency == 2

\* Values of MAX_CONCURRENCY the service is started with.
MaxConcurrencyValues == {1, DefaultMaxConcurrency}

Tasks == 1..NumReqs

VARIABLES
    maxConcurrency, \* config['MAX_CONCURRENCY']
    permits,        \* value of concurrency_semaphore
    file,           \* content kind of the session file (STORAGE_STATE_FILE)
    leaked,         \* browser contexts / browsers left open by finished runs
    run,            \* run[t]: local state of the request handled by task t
    clients,        \* how many requests the clients keep outstanding at once
    tracing,        \* history variable run[t].ev is recorded
    calc            \* a function of the program under evaluation on its own

vars == <<maxConcurrency, permits, file, leaked, run, clients, tracing, calc>>

(***************************************************************************)
(* Session file.                                                           *)
(*   absent      no file                                                   *)
(*   valid       JSON storage state whose cookies authenticate             *)
(*   stale       JSON storage state whose cookies no longer authenticate   *)
(*   badjson     text that json.load rejects (JSONDecodeError)             *)
(*   unreadable  open() fails with an IOError                              *)
(*   undecodable bytes that are not valid text (UnicodeDecodeError)        *)
(***************************************************************************)
FileKinds == {"absent", "valid", "stale", "badjson", "unreadable", "undecodable"}

\* Files that exist but cannot be read or parsed as JSON.
CorruptKinds == {"badjson", "unreadable", "undecodable"}

\* Exception classes caught by StorageStateManager.load.
LoadCaught == {"JSONDecodeError", "IOError"}

\* What reading and parsing the file raises, "" when it parses.
LoadRaises(f) ==
    CASE f = "badjson" -> "JSONDecodeError"
      [] f = "unreadable" -> "IOError"
      [] f = "undecodable" -> "UnicodeDecodeError"
      [] OTHER -> ""

\* StorageStateManager.load: [res |-> "none" | "state" | "raise", ...].
load(f) ==
    IF f = "absent" THEN [res |-> "none", state |-> "none", exc |-> ""]
    ELSE IF LoadRaises(f) = "" THEN [res |-> "state", state |-> f, exc |-> ""]
    ELSE IF LoadRaises(f) \in LoadCaught THEN [res |-> "none", state |-> "none", exc |-> ""]
    ELSE [res |-> "raise", state |-> "none", exc |-> LoadRaises(f)]

SaveRaises_uncaught(ioerror) == ioerror

\* Does an IOError inside StorageStateManager.save leave save() by raising?
SaveRaises(ioerror) == FALSE

\* Session file after save(state): written, or an IOError before (mkdir,
\* open) or in the middle of the write (truncated text).
SaveResults(f, state) ==
    {[ok |-> TRUE, file |-> state],
     [ok |-> FALSE, file |-> f],
     [ok |-> FALSE, file |-> "badjson"]}

(***************************************************************************)
(* Pages.                                                                  *)
(***************************************************************************)
\* What the login page shows when it has loaded.
Obstacles == {"none", "captcha", "two_fa"}

\* URLs a page can be on after the form was submitted.
\*   add_member    a URL containing "/add-member"
\*   distributors  a URL containing "distributors"
\*   fixmyads      selectors['new_membership']['url']
\*   elsewhere     any other URL
PostSubmitUrls == {"add_member", "distributors", "fixmyads", "elsewhere"}

\* selectors['new_membership']['url']
FormUrl == "fixmyads"

\* unified_flow: the test that decides "still on the form page".
StillOnFormPage(url) == url \in {"add_member", "distributors"}

\* Validation messages in encounter order.
MsgLists == {<< >>, <<"m1">>, <<"m1", "m2">>}

(***************************************************************************)
(* Run records.                                                            *)
(***************************************************************************)
\* Outcome of the workflow function: still running, returned an identifier,
\* returned None, or raised exception class exc.
NoOutcome == [k |-> "running", exc |-> "", id |-> << >>]
Returned(id) == [k |-> "return", exc |-> "", id |-> id]
ReturnedNone == [k |-> "none", exc |-> "", id |-> << >>]
Raised(e) == [k |-> "raise", exc |-> e, id |-> << >>]

\* The validation messages an outcome carries to the caller of the workflow
\* function: the function returns a string or None or raises, and none of
\* these holds the list validation_errors, which is printed and logged only.
OutcomeMessages(out) == << >>

NoResponse == [status |-> 0, membership |-> << >>]

\* No request: the key the request presents and the kind of its body.
NoRequest == [key |-> "none", body |-> "none"]

IdleRun ==
    [kind |-> "none", pc |-> "idle", ctx |-> 0, ownBrowser |-> FALSE,
     req |-> NoRequest, filled |-> "none",
     sess |-> "none", obstacle |-> "none", url |-> "none", errs |-> << >>,
     raw |-> << >>, val |-> << >>, ev |-> << >>, outcome |-> NoOutcome, response |-> NoResponse]

Range(s) == {s[i] : i \in 1..Len(s)}
Did(t, e) == e \in Range(run[t].ev)
Log(r, e) == IF tracing THEN [r EXCEPT !.ev = Append(@, e)] ELSE r

\* A value the code does not read again: kept as history only.
Hist(v, none) == IF tracing THEN v ELSE none

\* Runs between semaphore acquire and release.
InGate(t) == run[t].pc \notin {"idle", "waiting", "resp", "done"}

\* No function is under evaluation.
NoCalc == [op |-> "none"]

\* The service after startup_playwright.
Started ==
    /\ maxConcurrency \in MaxConcurrencyValues
    /\ permits = maxConcurrency
    /\ file \in FileKinds
    /\ leaked = 0
    /\ run = [t \in Tasks |-> IdleRun]

\* One client that sends its requests one after the other; the history of
\* every run is recorded.
Init ==
    /\ Started
    /\ clients = 1
    /\ tracing = TRUE
    /\ calc = NoCalc

\* Clients that send all their requests at once.
InitGate ==
    /\ Started
    /\ clients = NumReqs
    /\ tracing = FALSE
    /\ calc = NoCalc

\* The service with no client: the state in which a function of the program
\* is evaluated on its own.
Quiet ==
    /\ maxConcurrency = DefaultMaxConcurrency
    /\ permits = maxConcurrency
    /\ file = "absent"
    /\ leaked = 0
    /\ run = [t \in Tasks |-> IdleRun]
    /\ clients = 0
    /\ tracing = FALSE

\* Requests sent and not yet answered.
Outstanding == {t \in Tasks : run[t].pc \notin {"idle", "done"}}

(***************************************************************************)
(* HTTP layer.                                                             *)
(***************************************************************************)
\* The response to a request is built: by the handler after it has left the
\* "async with" block, or before the handler is called.
Finished(r, resp) ==
    IF tracing
    THEN [r EXCEPT !.pc = "resp", !.ctx = 0, !.ownBrowser = FALSE, !.response = resp]
    ELSE [IdleRun EXCEPT !.pc = "resp"]

\* Values of the X-API-Key header: absent or empty, a key that is not the
\* configured one, the configured key.
XApiKeys == {"none", "wrong", "right"}

\* Values of the Authorization header: absent, "Bearer " followed by a key,
\* anything else.
Authorizations == {"none", "bearer_wrong", "bearer_right", "other"}

\* validate_api_key: provided_key
provided_key(x, a) ==
    IF x # "none" THEN x
    ELSE CASE a = "bearer_wrong" -> "wrong"
           [] a = "bearer_right" -> "right"
           [] OTHER -> "none"

KeyAccepted_any(k) == TRUE

\* validate_api_key: "not provided_key or provided_key != expected_key" does
\* not hold.
KeyAccepted(k) == k = "right"

\* JSON bodies of POST /process: one that MembershipRecord accepts, one that
\* lacks a required field, one with a malformed email, one with a malformed
\* dob.
Bodies == {"valid", "missing_field", "bad_email", "bad_dob"}

\* The status FastAPI answers before the handler is called, 0 when the
\* handler is called: the dependency validate_api_key raises
\* HTTPException(401), then the validation of the body answers 422.
Admission(k, body) ==
    IF ~KeyAccepted(k) THEN 401 ELSE IF body # "valid" THEN 422 ELSE 0

\* The request of run r, kept as history.
WithRequest(r, kind, k, body) ==
    [r EXCEPT !.kind = kind, !.req = Hist([key |-> k, body |-> body], NoRequest)]

\* POST /debug reaches "async with concurrency_semaphore".
DebugRequest(t) ==
    /\ run[t].pc = "idle"
    /\ Cardinality(Outstanding) < clients
    /\ \E x \in XApiKeys, a \in Authorizations :
         /\ Admission(provided_key(x, a), "valid") = 0
         /\ run' = [run EXCEPT ![t] =
               [WithRequest(@, "debug", provided_key(x, a), "valid") EXCEPT
                   !.pc = "waiting"]]
    /\ UNCHANGED <<maxConcurrency, permits, file, leaked, clients, tracing, calc>>

\* POST /process reaches "async with concurrency_semaphore".
ProcessRequest(t) ==
    /\ run[t].pc = "idle"
    /\ Cardinality(Outstanding) < clients
    /\ \E x \in XApiKeys, a \in Authorizations, body \in Bodies :
         /\ Admission(provided_key(x, a), body) = 0
         /\ run' = [run EXCEPT ![t] =
               [WithRequest(@, "process", provided_key(x, a), body) EXCEPT
                   !.pc = "waiting"]]
    /\ UNCHANGED <<maxConcurrency, permits, file, leaked, clients, tracing, calc>>

\* POST /debug or POST /process is answered before the handler is called.
Reject(t) ==
    /\ run[t].pc = "idle"
    /\ Cardinality(Outstanding) < clients
    /\ \E kind \in {"debug", "process"}, x \in XApiKeys, a \in Authorizations,
          body \in Bodies :
         /\ kind = "debug" => body = "valid"
         /\ Admission(provided_key(x, a), body) # 0
         /\ run' = [run EXCEPT ![t] =
               Finished(Log(WithRequest(@, kind, provided_key(x, a), body), "rejected"),
                        [status |-> Admission(provided_key(x, a), body),
                         membership |-> << >>])]
    /\ UNCHANGED <<maxConcurrency, permits, file, leaked, clients, tracing, calc>>

CanAcquire_unbounded(p) == TRUE

\* May a waiting request take a slot of the semaphore?
CanAcquire(p) == p > 0

\* asyncio.Semaphore.acquire on entry of the "async with" block.
Acquire(t) ==
    /\ run[t].pc = "waiting"
    /\ CanAcquire(permits)
    /\ permits' = permits - 1
    /\ run' = [run EXCEPT ![t] =
          LET r == [@ EXCEPT !.pc = IF run[t].kind = "debug" THEN "el_load"
                                    ELSE "uf_start"]
          IN IF file = "valid" THEN Log(r, "session_valid") ELSE r]
    /\ UNCHANGED <<maxConcurrency, file, leaked, clients, tracing, calc>>

(***************************************************************************)
(* Browser calls.                                                          *)
(***************************************************************************)
\* An awaited Playwright call returns, times out or raises another error.
CallOutcomes == {"ok", "timeout", "error"}

\* The exception class a failed call raises.
CallRaises(o) == IF o = "timeout" THEN "PlaywrightTimeoutError" ELSE "Error"

\* The workflow function of run r has returned or raised: control is back in
\* the HTTP handler, still inside the "async with" block.
\* Its local variables are gone; they stay in the record as history only.
Exit(r, out) ==
    IF tracing THEN [r EXCEPT !.pc = "ret", !.outcome = out]
    ELSE [IdleRun EXCEPT !.kind = r.kind, !.pc = "ret", !.ctx = r.ctx,
                         !.ownBrowser = r.ownBrowser, !.outcome = out]

(***************************************************************************)
(* ensure_logged_in (app.py).                                              *)
(***************************************************************************)
LoginStageRaises_raw(e) == e

\* The except clauses of ensure_logged_in: the exception the caller sees when
\* exception e is raised inside the try block.
LoginStageRaises(e) == "LoginError"

\* An exception inside the try block: the except clause logs login_timeout
\* or login_error and raises LoginError, then finally context.close().
LoginFail(r, e) ==
    Exit(Log([r EXCEPT !.ctx = @ - 1],
             IF e = "PlaywrightTimeoutError" THEN "login_timeout" ELSE "login_error"),
         Raised(LoginStageRaises(e)))

\* storage_state = storage_manager.load(); if storage_state: return it.
ElLoad(t) ==
    /\ run[t].pc = "el_load"
    /\ LET l == load(file)
           r == IF file \in CorruptKinds THEN Log(run[t], "file_corrupt") ELSE run[t]
       IN
       run' = [run EXCEPT ![t] =
          CASE l.res = "state" ->
                 Log([r EXCEPT !.pc = "pr_new_context", !.sess = l.state], "load_state")
            [] l.res = "none" ->
                 Log([r EXCEPT !.pc = "el_new_context"], "load_none")
            [] OTHER -> Exit(Log(r, "load_raise"), Raised(l.exc))]
    /\ UNCHANGED <<maxConcurrency, permits, file, leaked, clients, tracing, calc>>

\* context = await browser.new_context()   (before the try block)
ElNewContext(t) ==
    /\ run[t].pc = "el_new_context"
    /\ \E o \in CallOutcomes :
         run' = [run EXCEPT ![t] =
            IF o = "ok" THEN [@ EXCEPT !.pc = "el_new_page", !.ctx = @ + 1]
            ELSE Exit(@, Raised(CallRaises(o)))]
    /\ UNCHANGED <<maxConcurrency, permits, file, leaked, clients, tracing, calc>>

\* page = await context.new_page()   (before the try block: nothing closes
\* the context when it raises)
ElNewPage(t) ==
    /\ run[t].pc = "el_new_page"
    /\ \E o \in CallOutcomes :
         run' = [run EXCEPT ![t] =
            IF o = "ok" THEN [@ EXCEPT !.pc = "el_goto"]
            ELSE Exit(@, Raised(CallRaises(o)))]
    /\ UNCHANGED <<maxConcurrency, permits, file, leaked, clients, tracing, calc>>

\* await page.goto(login_url, ...)
ElGoto(t) ==
    /\ run[t].pc = "el_goto"
    /\ \E o \in CallOutcomes, ob \in Obstacles :
         run' = [run EXCEPT ![t] =
            IF o = "ok"
            THEN Log([@ EXCEPT !.pc = "el_obstacle", !.url = Hist("login", "none"),
                                 !.obstacle = ob],
                     "login_nav")
            ELSE LoginFail(@, CallRaises(o))]
    /\ UNCHANGED <<maxConcurrency, permits, file, leaked, clients, tracing, calc>>

\* The CAPTCHA / 2FA check: two locator counts inside
\* try ... except PlaywrightTimeoutError: pass.
ElObstacle(t) ==
    /\ run[t].pc = "el_obstacle"
    /\ \E c1 \in CallOutcomes, c2 \in CallOutcomes :
         run' = [run EXCEPT ![t] =
            CASE c1 = "timeout" -> [@ EXCEPT !.pc = "el_fill_user", !.obstacle = Hist(@, "none")]
              [] c1 = "error" -> LoginFail(@, CallRaises(c1))
              [] c1 = "ok" /\ run[t].obstacle = "captcha" ->
                   LoginFail(Log(@, "captcha_detected"), "CaptchaDetectedError")
              [] c1 = "ok" /\ run[t].obstacle # "captcha" /\ c2 = "timeout" ->
                   [@ EXCEPT !.pc = "el_fill_user", !.obstacle = Hist(@, "none")]
              [] c1 = "ok" /\ run[t].obstacle # "captcha" /\ c2 = "error" ->
                   LoginFail(@, CallRaises(c2))
              [] c1 = "ok" /\ run[t].obstacle = "two_fa" /\ c2 = "ok" ->
                   LoginFail(Log(@, "two_fa_detected"), "CaptchaDetectedError")
              [] OTHER -> [@ EXCEPT !.pc = "el_fill_user", !.obstacle = Hist(@, "none")]]
    /\ UNCHANGED <<maxConcurrency, permits, file, leaked, clients, tracing, calc>>

\* wait_for_selector("#username"); page.fill(...)
ElFillUser(t) ==
    /\ run[t].pc = "el_fill_user"
    /\ \E o \in CallOutcomes :
         run' = [run EXCEPT ![t] =
            IF o = "ok" THEN Log([@ EXCEPT !.pc = "el_fill_pass"], "login_fill_user")
            ELSE LoginFail(@, CallRaises(o))]
    /\ UNCHANGED <<maxConcurrency, permits, file, leaked, clients, tracing, calc>>

\* wait_for_selector("#password"); page.fill(...)
ElFillPass(t) ==
    /\ run[t].pc = "el_fill_pass"
    /\ \E o \in CallOutcomes :
         run' = [run EXCEPT ![t] =
            IF o = "ok" THEN Log([@ EXCEPT !.pc = "el_click"], "login_fill_pass")
            ELSE LoginFail(@, CallRaises(o))]
    /\ UNCHANGED <<maxConcurrency, permits, file, leaked, clients, tracing, calc>>

\* await page.click(submit_selector)
ElClick(t) ==
    /\ run[t].pc = "el_click"
    /\ \E o \in CallOutcomes :
         run' = [run EXCEPT ![t] =
            IF o = "ok" THEN Log([@ EXCEPT !.pc = "el_verify"], "login_click")
            ELSE LoginFail(@, CallRaises(o))]
    /\ UNCHANGED <<maxConcurrency, permits, file, leaked, clients, tracing, calc>>

PostLoginSeen_any(o) == TRUE

\* Does ensure_logged_in go on to the save after the wait for the post-login
\* indicator ended with outcome o?
PostLoginSeen(o) == o = "ok"

\* await page.wait_for_selector(post_login_selector, timeout=TIMEOUTS['login'])
ElVerify(t) ==
    /\ run[t].pc = "el_verify"
    /\ \E o \in CallOutcomes :
         run' = [run EXCEPT ![t] =
            IF PostLoginSeen(o)
            THEN Log([@ EXCEPT !.pc = "el_save"],
                     IF o = "ok" THEN "login_ok" ELSE "login_unverified")
            ELSE LoginFail(@, CallRaises(o))]
    /\ UNCHANGED <<maxConcurrency, permits, file, leaked, clients, tracing, calc>>

\* storage_state = await context.storage_state();
\* await storage_manager.save(storage_state); return storage_state
\* (finally: context.close()).
ElSave(t) ==
    /\ run[t].pc = "el_save"
    /\ \/ \E o \in CallOutcomes \ {"ok"} :
            /\ run' = [run EXCEPT ![t] = LoginFail(@, CallRaises(o))]
            /\ file' = file
       \/ \E s \in SaveResults(file, "valid") :
            /\ file' = s.file
            /\ run' = [run EXCEPT ![t] =
                  IF ~s.ok /\ SaveRaises(TRUE)
                  THEN LoginFail(Log(@, "login_save_fail"), "IOError")
                  ELSE Log([@ EXCEPT !.pc = "pr_new_context", !.ctx = @ - 1,
                                     !.sess = "valid", !.url = "none",
                                     !.obstacle = "none"],
                           IF s.ok THEN "login_save_ok" ELSE "login_save_fail")]
    /\ UNCHANGED <<maxConcurrency, permits, leaked, clients, tracing, calc>>

(***************************************************************************)
(* format_membership_number (utils.py).  Strings are sequences of          *)
(* one-character strings.                                                  *)
(***************************************************************************)
Whitespace == {" "}

UpperToLower == [c \in {"I", "D", "N", "B", "E", "R", "M"} |->
    CASE c = "I" -> "i" [] c = "D" -> "d" [] c = "N" -> "n" [] c = "B" -> "b"
      [] c = "E" -> "e" [] c = "R" -> "r" [] c = "M" -> "m"]

\* str.lower
Lower(s) == [i \in 1..Len(s) |->
    IF s[i] \in DOMAIN UpperToLower THEN UpperToLower[s[i]] ELSE s[i]]

\* str.lstrip(chars)
RECURSIVE LStrip(_, _)
LStrip(s, chars) ==
    IF s # << >> /\ Head(s) \in chars THEN LStrip(Tail(s), chars) ELSE s

\* str.rstrip(chars)
RECURSIVE RStrip(_, _)
RStrip(s, chars) ==
    IF s # << >> /\ s[Len(s)] \in chars THEN RStrip(SubSeq(s, 1, Len(s) - 1), chars)
    ELSE s

\* str.strip()
Strip(s) == RStrip(LStrip(s, Whitespace), Whitespace)

\* str.startswith
StartsWith(s, p) == Len(s) >= Len(p) /\ SubSeq(s, 1, Len(p)) = p

\* prefixes_to_remove, in list order
prefixes_to_remove == <<
    <<"m", "e", "m", "b", "e", "r", "s", "h", "i", "p", " ", "n", "u", "m", "b", "e", "r", ":">>,
    <<"m", "e", "m", "b", "e", "r", "s", "h", "i", "p", ":">>,
    <<"n", "u", "m", "b", "e", "r", ":">>,
    <<"i", "d", ":">>,
    <<"m", "e", "m", "b", "e", "r", " ", "i", "d", ":">>,
    <<"c", "o", "n", "f", "i", "r", "m", "a", "t", "i", "o", "n", ":">>,
    <<"r", "e", "f", "e", "r", "e", "n", "c", "e", ":">> >>

\* The for loop over prefixes_to_remove, from index i on.
RECURSIVE RemovePrefixes(_, _)
RemovePrefixes(m, i) ==
    IF i > Len(prefixes_to_remove) THEN m
    ELSE IF StartsWith(Lower(m), prefixes_to_remove[i])
         THEN RemovePrefixes(
                  Strip(SubSeq(m, Len(prefixes_to_remove[i]) + 1, Len(m))), i + 1)
         ELSE RemovePrefixes(m, i + 1)

format_membership_number(raw) ==
    IF raw = << >> THEN << >>
    ELSE Strip(LStrip(RemovePrefixes(Strip(raw), 1), {":", "-"}))

\* Pieces the cell texts given to format_membership_number are built from.
Tokens == {
    <<"i", "d", ":">>,
    <<"I", "D", ":">>,
    <<"n", "u", "m", "b", "e", "r", ":">>,
    <<" ">>, <<":">>, <<"-">>, <<"7">> }

\* How many pieces a cell text has at most.
MaxTokens == 3

RECURSIVE Flatten(_)
Flatten(ts) == IF ts = << >> THEN << >> ELSE Head(ts) \o Flatten(Tail(ts))

FormatInputs ==
    {Flatten(ts) : ts \in UNION {[1..n -> Tokens] : n \in 0..MaxTokens}}

\* format_membership_number is about to be applied to a cell text.
InitFormat ==
    /\ Quiet
    /\ calc \in {[op |-> "format", n |-> 0, raw |-> raw, once |-> << >>, twice |-> << >>] :
                   raw \in FormatInputs}

\* once = format_membership_number(raw)
FormatOnce ==
    /\ calc.op = "format"
    /\ calc.n = 0
    /\ calc' = [calc EXCEPT !.n = 1, !.once = format_membership_number(calc.raw)]
    /\ UNCHANGED <<maxConcurrency, permits, file, leaked, run, clients, tracing>>

\* twice = format_membership_number(once)
FormatTwice ==
    /\ calc.op = "format"
    /\ calc.n = 1
    /\ calc' = [calc EXCEPT !.n = 2, !.twice = format_membership_number(calc.once)]
    /\ UNCHANGED <<maxConcurrency, permits, file, leaked, run, clients, tracing>>

NextFormat == FormatOnce \/ FormatTwice

SpecFormat == InitFormat /\ [][NextFormat]_vars

\* Texts of the first cell of the results table.
RawCells == {
    << >>,
    <<" ">>,
    <<"7">>,
    <<"I", "D", ":", " ", "7">> }

DemoMembership == <<"D", "E", "M", "O">>

(***************************************************************************)
(* process_record (app.py).                                                *)
(***************************************************************************)
\* An exception inside the try block of process_record: finally
\* context.close(), then the exception reaches the caller.
PrFail(r, e) == Exit([r EXCEPT !.ctx = @ - 1], Raised(e))

\* context = await browser.new_context(storage_state=...)  (before the try)
PrNewContext(t) ==
    /\ run[t].pc = "pr_new_context"
    /\ \E o \in CallOutcomes :
         run' = [run EXCEPT ![t] =
            IF o = "ok" THEN [@ EXCEPT !.pc = "pr_new_page", !.ctx = @ + 1]
            ELSE Exit(@, Raised(CallRaises(o)))]
    /\ UNCHANGED <<maxConcurrency, permits, file, leaked, clients, tracing, calc>>

\* page = await context.new_page()  (before the try)
PrNewPage(t) ==
    /\ run[t].pc = "pr_new_page"
    /\ \E o \in CallOutcomes :
         run' = [run EXCEPT ![t] =
            IF o = "ok" THEN [@ EXCEPT !.pc = "pr_goto_form"]
            ELSE Exit(@, Raised(CallRaises(o)))]
    /\ UNCHANGED <<maxConcurrency, permits, file, leaked, clients, tracing, calc>>

\* await page.goto(form_url, ...): with a session that no longer
\* authenticates the site answers with the login page.
PrGotoForm(t) ==
    /\ run[t].pc = "pr_goto_form"
    /\ \E o \in CallOutcomes :
         run' = [run EXCEPT ![t] =
            IF o = "ok"
            THEN IF run[t].sess = "stale"
                 THEN Log([@ EXCEPT !.pc = "pr_wait_form", !.url = Hist("login", "none")],
                          "redirected_to_login")
                 ELSE Log([@ EXCEPT !.pc = "pr_wait_form", !.url = Hist(FormUrl, "none")], "form_nav")
            ELSE PrFail(@, CallRaises(o))]
    /\ UNCHANGED <<maxConcurrency, permits, file, leaked, clients, tracing, calc>>

\* await page.wait_for_selector(form_container, ...)
PrWaitForm(t) ==
    /\ run[t].pc = "pr_wait_form"
    /\ \E o \in CallOutcomes :
         run' = [run EXCEPT ![t] =
            IF o = "ok" THEN [@ EXCEPT !.pc = "pr_fill"]
            ELSE PrFail(@, CallRaises(o))]
    /\ UNCHANGED <<maxConcurrency, permits, file, leaked, clients, tracing, calc>>

\* The loop over record_dict.items(): every error of a field is caught.
PrFill(t) ==
    /\ run[t].pc = "pr_fill"
    /\ run' = [run EXCEPT ![t] = Log([@ EXCEPT !.pc = "pr_submit"], "form_fill")]
    /\ UNCHANGED <<maxConcurrency, permits, file, leaked, clients, tracing, calc>>

\* await page.click(submit_selector)
PrSubmit(t) ==
    /\ run[t].pc = "pr_submit"
    /\ \E o \in CallOutcomes :
         run' = [run EXCEPT ![t] =
            IF o = "ok" THEN Log([@ EXCEPT !.pc = "pr_wait_idle"], "submit")
            ELSE PrFail(@, CallRaises(o))]
    /\ UNCHANGED <<maxConcurrency, permits, file, leaked, clients, tracing, calc>>

\* wait_for_load_state('networkidle') inside try/except PlaywrightTimeoutError
PrWaitIdle(t) ==
    /\ run[t].pc = "pr_wait_idle"
    /\ \E o \in CallOutcomes :
         run' = [run EXCEPT ![t] =
            IF o \in {"ok", "timeout"} THEN [@ EXCEPT !.pc = "pr_goto_results"]
            ELSE PrFail(@, CallRaises(o))]
    /\ UNCHANGED <<maxConcurrency, permits, file, leaked, clients, tracing, calc>>

\* await page.goto(results_url, ...)
PrGotoResults(t) ==
    /\ run[t].pc = "pr_goto_results"
    /\ \E o \in CallOutcomes :
         run' = [run EXCEPT ![t] =
            IF o = "ok"
            THEN Log([@ EXCEPT !.pc = "pr_wait_table", !.url = Hist("results", "none")], "results_nav")
            ELSE PrFail(@, CallRaises(o))]
    /\ UNCHANGED <<maxConcurrency, permits, file, leaked, clients, tracing, calc>>

\* wait_for_selector(table_selector); on timeout FormSubmissionError
PrWaitTable(t) ==
    /\ run[t].pc = "pr_wait_table"
    /\ \E o \in CallOutcomes :
         run' = [run EXCEPT ![t] =
            CASE o = "ok" -> [@ EXCEPT !.pc = "pr_extract"]
              [] o = "timeout" -> PrFail(@, "FormSubmissionError")
              [] OTHER -> PrFail(@, CallRaises(o))]
    /\ UNCHANGED <<maxConcurrency, permits, file, leaked, clients, tracing, calc>>

\* membership_element.count(); first.text_content();
\* format_membership_number(raw_membership)
PrExtract(t) ==
    /\ run[t].pc = "pr_extract"
    /\ \/ \E o \in CallOutcomes \ {"ok"} :
            run' = [run EXCEPT ![t] = PrFail(@, CallRaises(o))]
       \/ \* count() == 0: the demo branch
          run' = [run EXCEPT ![t] =
             Log([@ EXCEPT !.pc = "pr_save", !.val = DemoMembership], "extract_demo")]
       \/ \E raw \in RawCells :
            run' = [run EXCEPT ![t] =
               IF format_membership_number(raw) = << >>
               THEN PrFail(Log(@, "extract"), "FormSubmissionError")
               ELSE Log([@ EXCEPT !.pc = "pr_save",
                                  !.raw = Hist(raw, << >>),
                                  !.val = format_membership_number(raw)], "extract")]
    /\ UNCHANGED <<maxConcurrency, permits, file, leaked, clients, tracing, calc>>

\* updated_storage_state = await context.storage_state();
\* await storage_manager.save(updated_storage_state); return the number
\* (finally: context.close()).
PrSave(t) ==
    /\ run[t].pc = "pr_save"
    /\ \/ \E o \in CallOutcomes \ {"ok"} :
            /\ run' = [run EXCEPT ![t] = PrFail(@, CallRaises(o))]
            /\ file' = file
       \/ \E s \in SaveResults(file, run[t].sess) :
            /\ file' = s.file
            /\ run' = [run EXCEPT ![t] =
                  IF ~s.ok /\ SaveRaises(TRUE)
                  THEN PrFail(Log(@, "final_save_fail"), "IOError")
                  ELSE Exit(Log([@ EXCEPT !.ctx = @ - 1],
                                IF s.ok THEN "final_save_ok" ELSE "final_save_fail"),
                            Returned(run[t].val))]
    /\ UNCHANGED <<maxConcurrency, permits, leaked, clients, tracing, calc>>

\* The handler returns its SuccessResponse or raises its HTTPException: the
\* request is answered and nothing of the run remains.
Deliver(t) ==
    /\ run[t].pc = "resp"
    /\ run' = [run EXCEPT ![t] = [IdleRun EXCEPT !.pc = "done"]]
    /\ UNCHANGED <<maxConcurrency, permits, file, leaked, clients, tracing, calc>>

Release_kept(p) == p

\* asyncio.Semaphore.release on exit of the "async with" block.
Release(p) == p + 1

\* debug_workflow: leaving the "async with" block releases the semaphore;
\* a returned number is answered 200, any exception 500.
DebugRespond(t) ==
    /\ run[t].pc = "ret"
    /\ run[t].kind = "debug"
    /\ permits' = Release(permits)
    /\ leaked' = leaked + run[t].ctx
    /\ run' = [run EXCEPT ![t] =
          Finished(@, IF run[t].outcome.k = "return"
                      THEN [status |-> 200, membership |-> run[t].outcome.id]
                      ELSE [status |-> 500, membership |-> << >>])]
    /\ UNCHANGED <<maxConcurrency, file, clients, tracing, calc>>

(***************************************************************************)
(* The unified flow (unified_flow.py), run by POST /process.               *)
(* context.close(), browser.close() and playwright.stop() are taken to     *)
(* succeed.                                                                *)
(***************************************************************************)
\* The finally block: close the context and the browser the run launched.
Cleanup(r) == [r EXCEPT !.ctx = 0, !.ownBrowser = FALSE]

\* "except Exception: return None", or an early "return None".
UfFail(r) == Exit(Cleanup(r), ReturnedNone)

\* An awaited call ended with outcome o, not "ok", and ends the run.
UfCallFail(r, o) == UfFail(IF o = "timeout" THEN Log(r, "wait_timeout") ELSE r)

\* Subclasses of NonRetryableError (app.py) and the class itself.
NonRetryableErrors ==
    {"NonRetryableError", "LoginError", "SelectorError", "CaptchaDetectedError"}

\* Exceptions that reach process_membership from the workflow call.  The
\* handler imports the workflow under the name extract_act_strategic_id, which
\* unified_flow.py does not define; the body of the workflow is taken from
\* create_schmick_membership, which lets only the errors of its first lines
\* out (KeyError of member_data["u"]); the other classes are those the except
\* clauses of the handler prepare for.  TargetClosedError stands for an
\* exception whose message contains "Target page, context or browser has been
\* closed".
WorkflowRaises ==
    {"KeyError", "LoginError", "PlaywrightTimeoutError", "TargetClosedError"}

\* The workflow call raises before its try block is entered.
UfRaise(t) ==
    /\ run[t].pc = "uf_start"
    /\ \E e \in WorkflowRaises :
         run' = [run EXCEPT ![t] = Exit(Log(@, "workflow_raised"), Raised(e))]
    /\ UNCHANGED <<maxConcurrency, permits, file, leaked, clients, tracing, calc>>

\* playwright = await async_playwright().start()
UfStart(t) ==
    /\ run[t].pc = "uf_start"
    /\ \E o \in CallOutcomes :
         run' = [run EXCEPT ![t] =
            IF o = "ok" THEN [@ EXCEPT !.pc = "uf_launch"]
            ELSE UfCallFail(@, o)]
    /\ UNCHANGED <<maxConcurrency, permits, file, leaked, clients, tracing, calc>>

\* browser = await playwright.firefox.launch(...)
UfLaunch(t) ==
    /\ run[t].pc = "uf_launch"
    /\ \E o \in CallOutcomes :
         run' = [run EXCEPT ![t] =
            IF o = "ok" THEN [@ EXCEPT !.pc = "uf_new_context", !.ownBrowser = TRUE]
            ELSE UfCallFail(@, o)]
    /\ UNCHANGED <<maxConcurrency, permits, file, leaked, clients, tracing, calc>>

\* context = await browser.new_context(...)
UfNewContext(t) ==
    /\ run[t].pc = "uf_new_context"
    /\ \E o \in CallOutcomes :
         run' = [run EXCEPT ![t] =
            IF o = "ok" THEN [@ EXCEPT !.pc = "uf_new_page", !.ctx = @ + 1]
            ELSE UfCallFail(@, o)]
    /\ UNCHANGED <<maxConcurrency, permits, file, leaked, clients, tracing, calc>>

\* page = await context.new_page()
UfNewPage(t) ==
    /\ run[t].pc = "uf_new_page"
    /\ \E o \in CallOutcomes :
         run' = [run EXCEPT ![t] =
            IF o = "ok" THEN [@ EXCEPT !.pc = "uf_goto_login"]
            ELSE UfCallFail(@, o)]
    /\ UNCHANGED <<maxConcurrency, permits, file, leaked, clients, tracing, calc>>

\* STEP 1: await page.goto(login_url, ...)
UfGotoLogin(t) ==
    /\ run[t].pc = "uf_goto_login"
    /\ \E o \in CallOutcomes, ob \in Obstacles :
         run' = [run EXCEPT ![t] =
            IF o = "ok"
            THEN Log([@ EXCEPT !.pc = "uf_fill_user", !.url = Hist("login", "none"),
                                 !.obstacle = Hist(ob, "none")],
                     "login_nav")
            ELSE UfCallFail(@, o)]
    /\ UNCHANGED <<maxConcurrency, permits, file, leaked, clients, tracing, calc>>

\* wait_for_selector(username); page.fill(username)
UfFillUser(t) ==
    /\ run[t].pc = "uf_fill_user"
    /\ \E o \in CallOutcomes :
         run' = [run EXCEPT ![t] =
            IF o = "ok" THEN Log([@ EXCEPT !.pc = "uf_fill_pass"], "login_fill_user")
            ELSE UfCallFail(@, o)]
    /\ UNCHANGED <<maxConcurrency, permits, file, leaked, clients, tracing, calc>>

\* wait_for_selector(password); page.fill(password)
UfFillPass(t) ==
    /\ run[t].pc = "uf_fill_pass"
    /\ \E o \in CallOutcomes :
         run' = [run EXCEPT ![t] =
            IF o = "ok" THEN Log([@ EXCEPT !.pc = "uf_click_login"], "login_fill_pass")
            ELSE UfCallFail(@, o)]
    /\ UNCHANGED <<maxConcurrency, permits, file, leaked, clients, tracing, calc>>

\* await page.click(selectors['login']['submit'])
UfClickLogin(t) ==
    /\ run[t].pc = "uf_click_login"
    /\ \E o \in CallOutcomes :
         run' = [run EXCEPT ![t] =
            IF o = "ok" THEN Log([@ EXCEPT !.pc = "uf_wait_login"], "login_click")
            ELSE UfCallFail(@, o)]
    /\ UNCHANGED <<maxConcurrency, permits, file, leaked, clients, tracing, calc>>

\* await page.wait_for_timeout(5000): no check that the login succeeded
UfWaitLogin(t) ==
    /\ run[t].pc = "uf_wait_login"
    /\ \E o \in CallOutcomes :
         run' = [run EXCEPT ![t] =
            IF o = "ok" THEN [@ EXCEPT !.pc = "uf_goto_form"]
            ELSE UfCallFail(@, o)]
    /\ UNCHANGED <<maxConcurrency, permits, file, leaked, clients, tracing, calc>>

\* STEP 2: await page.goto(add_member_url, ...)
UfGotoForm(t) ==
    /\ run[t].pc = "uf_goto_form"
    /\ \E o \in CallOutcomes :
         run' = [run EXCEPT ![t] =
            IF o = "ok"
            THEN Log([@ EXCEPT !.pc = "uf_wait_form", !.url = Hist(FormUrl, "none"),
                               !.obstacle = "none"], "form_nav")
            ELSE UfCallFail(@, o)]
    /\ UNCHANGED <<maxConcurrency, permits, file, leaked, clients, tracing, calc>>

\* await page.wait_for_selector("#businessName", ...)
UfWaitForm(t) ==
    /\ run[t].pc = "uf_wait_form"
    /\ \E o \in CallOutcomes :
         run' = [run EXCEPT ![t] =
            IF o = "ok" THEN [@ EXCEPT !.pc = "uf_fill"]
            ELSE UfCallFail(@, o)]
    /\ UNCHANGED <<maxConcurrency, permits, file, leaked, clients, tracing, calc>>

\* What process_membership hands to the workflow of the record in the body
\* of its request: "extracted_id = await extract_act_strategic_id()" has no
\* argument.
WorkflowArgument(body) == "none"

\* STEP 3: the loops over the field lists: every error of a field is caught.
\* The values filled in are those of member_data, the argument of the call.
UfFill(t) ==
    /\ run[t].pc = "uf_fill"
    /\ run' = [run EXCEPT ![t] =
          Log([@ EXCEPT !.pc = "uf_submit",
                        !.filled = Hist(WorkflowArgument(@.req.body), "none")],
              "form_fill")]
    /\ UNCHANGED <<maxConcurrency, permits, file, leaked, clients, tracing, calc>>

SubmitFailed_continue(r, o) == Log([r EXCEPT !.pc = "uf_wait_submit"], "submit_failed")

\* The JavaScript click failed with outcome o after the regular click had
\* failed: "JavaScript click also failed", return None.
SubmitFailed(r, o) == UfCallFail(Log(r, "submit_failed"), o)

\* STEP 4: the regular click, then the JavaScript click; "return None" when
\* both fail.
UfSubmit(t) ==
    /\ run[t].pc = "uf_submit"
    /\ \E click \in CallOutcomes, js \in CallOutcomes :
         run' = [run EXCEPT ![t] =
            CASE click = "ok" -> Log([@ EXCEPT !.pc = "uf_wait_submit"], "submit")
              [] click # "ok" /\ js = "ok" ->
                   Log([@ EXCEPT !.pc = "uf_wait_submit"], "submit_js")
              [] OTHER -> SubmitFailed(@, js)]
    /\ UNCHANGED <<maxConcurrency, permits, file, leaked, clients, tracing, calc>>

WaitErrorCaught_timeout(o) == o = "timeout"

\* Is the failure o of a wait for form submission caught ("except Exception")?
WaitErrorCaught(o) == TRUE

\* wait_for_url(lambda url: url != current_url) ends normally: the page URL u
\* differs from the URL read into current_url before the wait.
UrlChanged(current_url, u) == u # current_url

\* Strategy 1: await page.wait_for_navigation(timeout=30000).  u is the URL
\* of the page when the call ends; when it raises, current_url = page.url
\* is read.
UfWaitSubmit(t) ==
    /\ run[t].pc = "uf_wait_submit"
    /\ \E o \in CallOutcomes, u \in PostSubmitUrls :
         run' = [run EXCEPT ![t] =
            CASE o = "ok" ->
                   Log([@ EXCEPT !.pc = "uf_validate", !.url = u], "navigation_detected")
              [] o # "ok" /\ WaitErrorCaught(o) ->
                   Log([@ EXCEPT !.pc = "uf_wait_url", !.url = u], "no_navigation")
              [] OTHER -> UfCallFail(@, o)]
    /\ UNCHANGED <<maxConcurrency, permits, file, leaked, clients, tracing, calc>>

\* Strategy 2: await page.wait_for_url(lambda url: url != current_url,
\* timeout=15000), current_url being run[t].url.  u is the URL of the page
\* when the call ends, o how it fails when the URL stayed.
UfWaitUrl(t) ==
    /\ run[t].pc = "uf_wait_url"
    /\ \E o \in CallOutcomes \ {"ok"}, u \in PostSubmitUrls :
         run' = [run EXCEPT ![t] =
            CASE UrlChanged(run[t].url, u) ->
                   Log([@ EXCEPT !.pc = "uf_validate", !.url = u], "url_change_detected")
              [] ~UrlChanged(run[t].url, u) /\ WaitErrorCaught(o) ->
                   Log([@ EXCEPT !.pc = "uf_wait_idle", !.url = Hist(u, "none")],
                       "no_url_change")
              [] OTHER -> UfCallFail(@, o)]
    /\ UNCHANGED <<maxConcurrency, permits, file, leaked, clients, tracing, calc>>

\* Strategy 3: await page.wait_for_timeout(5000); then
\* current_url = page.url, u being the URL of the page at that time.
UfWaitIdle(t) ==
    /\ run[t].pc = "uf_wait_idle"
    /\ \E o \in CallOutcomes, u \in PostSubmitUrls :
         run' = [run EXCEPT ![t] =
            IF o = "ok" \/ WaitErrorCaught(o)
            THEN Log([@ EXCEPT !.pc = "uf_validate", !.url = u], "idle_wait")
            ELSE UfCallFail(@, o)]
    /\ UNCHANGED <<maxConcurrency, permits, file, leaked, clients, tracing, calc>>

ValidationErrorCaught_not(raised) == FALSE

\* Is an exception of the validation check caught by the "except Exception"
\* of its own try block (unified_flow.py:415-416)?
ValidationErrorCaught(raised) == TRUE

\* VALIDATION ERROR CHECKING: msgs is what the locators have appended to
\* validation_errors when the block ends, raised says that it ended by an
\* exception ("except Exception" prints it and the run goes on).
UfValidate(t) ==
    /\ run[t].pc = "uf_validate"
    /\ IF StillOnFormPage(run[t].url)
       THEN \E msgs \in MsgLists, raised \in BOOLEAN :
              run' = [run EXCEPT ![t] =
                 IF msgs # << >> /\ ~raised
                 THEN UfFail(Log([@ EXCEPT !.errs = msgs, !.url = "none"],
                                 "validation_failed"))
                 ELSE IF raised /\ ~ValidationErrorCaught(raised)
                 THEN UfFail(Log([@ EXCEPT !.errs = Hist(msgs, << >>), !.url = "none"],
                                 "validation_error"))
                 ELSE Log([@ EXCEPT !.pc = "uf_settle", !.errs = Hist(msgs, << >>),
                                    !.url = "none"],
                          IF raised THEN "validation_error" ELSE "validate")]
       ELSE run' = [run EXCEPT ![t] =
                      Log([@ EXCEPT !.pc = "uf_settle", !.url = "none"],
                          "left_form")]
    /\ UNCHANGED <<maxConcurrency, permits, file, leaked, clients, tracing, calc>>

\* await page.wait_for_timeout(8000)
UfSettle(t) ==
    /\ run[t].pc = "uf_settle"
    /\ \E o \in CallOutcomes :
         run' = [run EXCEPT ![t] =
            IF o = "ok" THEN [@ EXCEPT !.pc = "uf_goto_results"]
            ELSE UfCallFail(@, o)]
    /\ UNCHANGED <<maxConcurrency, permits, file, leaked, clients, tracing, calc>>

\* STEP 5: page.goto(view_members_url) inside try/except: "try to continue
\* anyway".
UfGotoResults(t) ==
    /\ run[t].pc = "uf_goto_results"
    /\ \E o \in CallOutcomes :
         run' = [run EXCEPT ![t] =
            IF o = "ok"
            THEN Log([@ EXCEPT !.pc = "uf_wait_table", !.url = Hist("results", "none")], "results_nav")
            ELSE Log([@ EXCEPT !.pc = "uf_wait_table"], "results_nav_failed")]
    /\ UNCHANGED <<maxConcurrency, permits, file, leaked, clients, tracing, calc>>

\* STEP 6: wait for the table container, then for any "table".
UfWaitTable(t) ==
    /\ run[t].pc = "uf_wait_table"
    /\ \E o1 \in CallOutcomes, o2 \in CallOutcomes :
         run' = [run EXCEPT ![t] =
            CASE o1 = "ok" -> Log([@ EXCEPT !.pc = "uf_extract"], "table_container")
              [] o1 # "ok" /\ o2 = "ok" ->
                   Log([@ EXCEPT !.pc = "uf_extract"], "generic_table")
              [] OTHER -> UfCallFail(@, o2)]
    /\ UNCHANGED <<maxConcurrency, permits, file, leaked, clients, tracing, calc>>

\* wait_for_selector(id_selector); count(); first.text_content(); strip()
UfExtract(t) ==
    /\ run[t].pc = "uf_extract"
    /\ \/ \E o \in CallOutcomes \ {"ok"} :
            run' = [run EXCEPT ![t] = UfCallFail(@, o)]
       \/ \E raw \in RawCells :
            run' = [run EXCEPT ![t] =
               IF Strip(raw) # << >>
               THEN Exit(Cleanup(Log([@ EXCEPT !.raw = raw], "extract")),
                         Returned(Strip(raw)))
               ELSE UfFail(Log(@, "extract"))]
    /\ UNCHANGED <<maxConcurrency, permits, file, leaked, clients, tracing, calc>>

\* membership value of the "browser closed" branch of process_membership
DemoBrowserClosed == <<"D", "E", "M", "O", "-", "C">>

\* process_membership: the response to the outcome of the workflow call.
\* None raises HTTPException(500) inside the try block, which the clause
\* "except Exception" answers with 500 again.
process_response(out) ==
    CASE out.k = "return" -> [status |-> 200, membership |-> out.id]
      [] out.k = "none" -> [status |-> 500, membership |-> << >>]
      [] out.k = "raise" /\ out.exc \in NonRetryableErrors ->
           [status |-> 400, membership |-> << >>]
      [] out.k = "raise" /\ out.exc = "PlaywrightTimeoutError" ->
           [status |-> 408, membership |-> << >>]
      [] out.k = "raise" /\ out.exc = "TargetClosedError" ->
           [status |-> 200, membership |-> DemoBrowserClosed]
      [] OTHER -> [status |-> 500, membership |-> << >>]

\* process_membership: leaving the "async with" block releases the
\* semaphore; then the response is built.
ProcessRespond(t) ==
    /\ run[t].pc = "ret"
    /\ run[t].kind = "process"
    /\ permits' = Release(permits)
    /\ leaked' = leaked + run[t].ctx
    /\ run' = [run EXCEPT ![t] = Finished(@, process_response(run[t].outcome))]
    /\ UNCHANGED <<maxConcurrency, file, clients, tracing, calc>>

(***************************************************************************)
(* Form fill: the loop of process_record (app.py) and STEP 3 of the unified *)
(* flow (unified_flow.py) as functions of the record and of what the page   *)
(* does with each field.  The fields are a sample of each kind:             *)
(*   salesforceId       never filled                                       *)
(*   firstName          text, required by MembershipRecord, mapped          *)
(*   phone              text, optional, mapped                              *)
(*   state              select, optional, mapped                            *)
(*   businessName       text field of the unified flow, not mapped          *)
(*   preExistingDamage  radio of the unified flow                           *)
(*   alloyWheels        checkbox of the unified flow                        *)
(***************************************************************************)
Fields == {"salesforceId", "firstName", "phone", "state", "businessName",
           "preExistingDamage", "alloyWheels"}

\* Fields declared by MembershipRecord, in declaration order.
RecordFieldOrder == <<"salesforceId", "firstName", "phone", "state">>

\* Values of a field: null, the empty string, two non-empty strings.
FieldValues == {"None", "", "no", "yes"}

\* FIELD_MAPPING, on the fields above.
FIELD_MAPPING == [f \in {"firstName", "phone", "state"} |->
    CASE f = "firstName" -> "first_name" [] f = "phone" -> "phone"
      [] f = "state" -> "state"]

\* Keys of selectors['new_membership'] (there is none for the radio buttons).
SelectorKeys == {"url", "first_name", "phone", "state", "submit", "form_container"}

\* The form elements that are <select>.
SelectElements == {"state"}

selector_key_any(f) == "first_name"

\* FIELD_MAPPING.get(field)
selector_key(f) == IF f \in DOMAIN FIELD_MAPPING THEN FIELD_MAPPING[f] ELSE "None"

\* Python truth of a field value.
Truthy(v) == v \notin {"None", ""}

\* str(value).lower() in ['true', 'yes', '1']
SaysYes(v) == v = "yes"

\* What the page does with the first call on a field: it works, it raises,
\* or the element is not on the page.
FieldOutcomes == {"ok", "raise", "missing"}

OutcomeOf(o, f) == IF f \in DOMAIN o THEN o[f] ELSE "ok"

\* One browser call on a field.
Act(f, call, ok) == [field |-> f, call |-> call, ok |-> ok]

\* The calls of one field ended by an exception.
Failed(part) == part # << >> /\ ~part[Len(part)].ok

FieldErrorCaught_not == FALSE

\* Is the exception of a field caught inside the loop?
FieldErrorCaught == TRUE

\* The loops: the calls of the fields one after the other, up to an exception
\* that leaves the loop.
RECURSIVE Loop(_)
Loop(parts) ==
    IF parts = << >> THEN [acts |-> << >>, done |-> TRUE]
    ELSE IF Failed(Head(parts)) /\ ~FieldErrorCaught
         THEN [acts |-> Head(parts), done |-> FALSE]
         ELSE [acts |-> Head(parts) \o Loop(Tail(parts)).acts,
               done |-> Loop(Tail(parts)).done]

\* record.dict(exclude_unset=True): the fields of the request body that
\* MembershipRecord declares.
record_dict(body) == [f \in DOMAIN body \cap Range(RecordFieldOrder) |-> body[f]]

\* process_record: the body of the loop for field f.
RecordField(f, d, o) ==
    IF f = "salesforceId" \/ d[f] = "None" THEN << >>
    ELSE IF selector_key(f) = "None" THEN << >>
    ELSE IF selector_key(f) \notin SelectorKeys THEN << >>
    ELSE CASE OutcomeOf(o, f) = "raise" -> <<Act(f, "count", FALSE)>>
           [] OutcomeOf(o, f) = "missing" -> <<Act(f, "count", TRUE)>>
           [] OTHER ->
                <<Act(f, "count", TRUE), Act(f, "evaluate", TRUE),
                  Act(f, IF selector_key(f) \in SelectElements
                         THEN "select_option" ELSE "fill", TRUE)>>

\* process_record: for field_name, field_value in record_dict.items()
process_record_fill(body, o) ==
    Loop([i \in 1..Len(RecordFieldOrder) |->
            IF RecordFieldOrder[i] \in DOMAIN record_dict(body)
            THEN RecordField(RecordFieldOrder[i], record_dict(body), o)
            ELSE << >>])

text_fields == <<"businessName", "firstName">>
select_fields == <<"state">>
checkbox_fields == <<"alloyWheels">>

\* unified flow: the body of the three loops for field f; call is page.fill,
\* page.select_option or page.check.
MemberField(f, call, d, o) ==
    IF f \in DOMAIN d /\ Truthy(d[f])
    THEN IF selector_key(f) # "None" /\ selector_key(f) \in SelectorKeys
         THEN IF call = "check" /\ ~SaysYes(d[f]) THEN << >>
              ELSE <<Act(f, call, OutcomeOf(o, f) = "ok")>>
         ELSE << >>
    ELSE << >>

\* unified flow: the radio buttons.  Without the two selector keys the
\* subscript raises KeyError in the try block and again in the fallback.
RadioField(d, o) ==
    IF "preExistingDamage" \in DOMAIN d
    THEN IF {"pre_existing_damage_yes", "pre_existing_damage_no"} \subseteq SelectorKeys
         THEN IF OutcomeOf(o, "preExistingDamage") = "ok"
              THEN <<Act("preExistingDamage", "wait_for_selector", TRUE),
                     Act("preExistingDamage", "click", TRUE)>>
              ELSE <<Act("preExistingDamage", "wait_for_selector", FALSE),
                     Act("preExistingDamage", "evaluate", TRUE)>>
         ELSE << >>
    ELSE << >>

\* unified flow, STEP 3
member_data_fill(d, o) ==
    Loop([i \in 1..Len(text_fields) |-> MemberField(text_fields[i], "fill", d, o)]
         \o [i \in 1..Len(select_fields) |->
               MemberField(select_fields[i], "select_option", d, o)]
         \o <<RadioField(d, o)>>
         \o [i \in 1..Len(checkbox_fields) |->
               MemberField(checkbox_fields[i], "check", d, o)])

\* How many fields a request carries at most, next to the required ones.
MaxFields == 2

Dicts(pool) ==
    UNION {[S -> FieldValues] : S \in {T \in SUBSET pool : Cardinality(T) <= MaxFields}}

\* member_data of the unified flow
MemberDatas == Dicts(Fields)

\* Request bodies that MembershipRecord accepts: salesforceId a string,
\* firstName a non-empty string, the optional fields anything.
RecordBodies ==
    {[f \in DOMAIN d \cup {"salesforceId", "firstName"} |->
         IF f \in DOMAIN d THEN d[f] ELSE "yes"] :
       d \in Dicts(Fields \ {"salesforceId", "firstName"})}

\* What the page does with the fields that have a form element.
PageOutcomes(d) ==
    [DOMAIN d \cap (DOMAIN FIELD_MAPPING \cup {"preExistingDamage"}) -> FieldOutcomes]

\* The form fill of a flow is about to run on record d with page answers o.
FillCalc(flow, d, o) ==
    [op |-> "fill", flow |-> flow, n |-> 0, d |-> d, o |-> o,
     acts |-> << >>, done |-> FALSE]

InitFill ==
    /\ Quiet
    /\ calc \in
         UNION {{FillCalc("record", d, o) : o \in PageOutcomes(d)} : d \in RecordBodies}
         \cup
         UNION {{FillCalc("member", d, o) : o \in PageOutcomes(d)} : d \in MemberDatas}

\* The form fill of flow on record d when the page answers o.
FillOf(flow, d, o) ==
    IF flow = "record" THEN process_record_fill(d, o) ELSE member_data_fill(d, o)

\* process_record fills the form.
FillRecord ==
    /\ calc.op = "fill" /\ calc.flow = "record" /\ calc.n = 0
    /\ calc' = [calc EXCEPT !.n = 1,
                   !.acts = process_record_fill(calc.d, calc.o).acts,
                   !.done = process_record_fill(calc.d, calc.o).done]
    /\ UNCHANGED <<maxConcurrency, permits, file, leaked, run, clients, tracing>>

\* The unified flow fills the form.
FillMember ==
    /\ calc.op = "fill" /\ calc.flow = "member" /\ calc.n = 0
    /\ calc' = [calc EXCEPT !.n = 1,
                   !.acts = member_data_fill(calc.d, calc.o).acts,
                   !.done = member_data_fill(calc.d, calc.o).done]
    /\ UNCHANGED <<maxConcurrency, permits, file, leaked, run, clients, tracing>>

NextFill == FillRecord \/ FillMember

SpecFill == InitFill /\ [][NextFill]_vars

(***************************************************************************)
(* Specification.                                                          *)
(***************************************************************************)
Next ==
    \E t \in Tasks :
        \/ DebugRequest(t) \/ ProcessRequest(t) \/ Reject(t) \/ Acquire(t)
        \/ ElLoad(t) \/ ElNewContext(t) \/ ElNewPage(t) \/ ElGoto(t)
        \/ ElObstacle(t) \/ ElFillUser(t) \/ ElFillPass(t) \/ ElClick(t)
        \/ ElVerify(t) \/ ElSave(t)
        \/ PrNewContext(t) \/ PrNewPage(t) \/ PrGotoForm(t) \/ PrWaitForm(t)
        \/ PrFill(t) \/ PrSubmit(t) \/ PrWaitIdle(t) \/ PrGotoResults(t)
        \/ PrWaitTable(t) \/ PrExtract(t) \/ PrSave(t) \/ DebugRespond(t)
        \/ UfRaise(t) \/ UfStart(t) \/ UfLaunch(t) \/ UfNewContext(t) \/ UfNewPage(t)
        \/ UfGotoLogin(t) \/ UfFillUser(t) \/ UfFillPass(t) \/ UfClickLogin(t)
        \/ UfWaitLogin(t) \/ UfGotoForm(t) \/ UfWaitForm(t) \/ UfFill(t)
        \/ UfSubmit(t) \/ UfWaitSubmit(t) \/ UfWaitUrl(t) \/ UfWaitIdle(t)
        \/ UfValidate(t) \/ UfSettle(t)
        \/ UfGotoResults(t) \/ UfWaitTable(t) \/ UfExtract(t)
        \/ ProcessRespond(t) \/ Deliver(t)

Spec == Init /\ [][Next]_vars

SpecGate == InitGate /\ [][Next]_vars

\* ---------------------------------------------------------------------
\* retry_async (utils.py).

MaxRetries == 2

\* base_delay and backoff_factor of a call (the defaults are 1.0 and 2.0).
BaseDelays == {1, 3}
BackoffFactors == {2, 3}

\* How a call of func ends: a value, or an exception of the given class.
FuncOutcomes ==
    {"ok", "RetryableError", "FormSubmissionError", "LoginError",
     "CaptchaDetectedError", "PlaywrightTimeoutError"}

Retryable_all(e) == e # "ok"

\* isinstance(e, retryable_exceptions) with the default (RetryableError,):
\* FormSubmissionError is the subclass of RetryableError.
Retryable(e) == e \in {"RetryableError", "FormSubmissionError"}

RECURSIVE Pow(_, _)
Pow(b, k) == IF k = 0 THEN 1 ELSE b * Pow(b, k - 1)

RetryExhausted_late(attempt, max_retries) == attempt > max_retries

\* if attempt >= max_retries: break
RetryExhausted(attempt, max_retries) == attempt >= max_retries

RetryOf(m, d, f) ==
    [op |-> "retry", max_retries |-> m, base_delay |-> d, backoff_factor |-> f,
     attempt |-> 0, pc |-> "call", outs |-> << >>, sleeps |-> << >>,
     result |-> [k |-> "none", call |-> 0, exc |-> ""]]

InitRetry ==
    /\ Quiet
    /\ calc \in {RetryOf(m, d, f) :
                    m \in 0..MaxRetries, d \in BaseDelays, f \in BackoffFactors}

\* One pass of the loop body up to the sleep: return await func(), or one of
\* the two except clauses.  The value of call number i is written i.
RetryCall ==
    /\ calc.op = "retry" /\ calc.pc = "call"
    /\ \E o \in FuncOutcomes :
         LET c == [calc EXCEPT !.outs = Append(@, o)]
             raised == [k |-> "raise", call |-> calc.attempt, exc |-> o]
         IN  calc' =
               CASE o = "ok" ->
                      [c EXCEPT !.pc = "returned",
                                !.result = [k |-> "return", call |-> calc.attempt, exc |-> ""]]
                 [] o # "ok" /\ Retryable(o)
                      /\ RetryExhausted(calc.attempt, calc.max_retries) ->
                      [c EXCEPT !.pc = "raised", !.result = raised]
                 [] o # "ok" /\ Retryable(o)
                      /\ ~RetryExhausted(calc.attempt, calc.max_retries) ->
                      [c EXCEPT !.pc = "sleep"]
                 [] OTHER -> [c EXCEPT !.pc = "raised", !.result = raised]
    /\ UNCHANGED <<maxConcurrency, permits, file, leaked, run, clients, tracing>>

\* delay = base_delay * (backoff_factor ** attempt); await asyncio.sleep(delay)
RetrySleep ==
    /\ calc.op = "retry" /\ calc.pc = "sleep"
    /\ calc' = [calc EXCEPT
                  !.sleeps = Append(@, calc.base_delay * Pow(calc.backoff_factor, calc.attempt)),
                  !.attempt = @ + 1,
                  !.pc = "call"]
    /\ UNCHANGED <<maxConcurrency, permits, file, leaked, run, clients, tracing>>

NextRetry == RetryCall \/ RetrySleep

SpecRetry == InitRetry /\ [][NextRetry]_vars

\* ---------------------------------------------------------------------
\* Startup: load_env, validate_required_env, startup_playwright, lifespan.

required_vars == {"PLAYWRIGHT_API_KEY", "SCHMICK_USER", "SCHMICK_PASS"}

\* What the environment holds for a required variable.
EnvValues == {"unset", "", "set"}

HeadlessValues == {"unset", "true", "false"}

Environments ==
    [PLAYWRIGHT_API_KEY : EnvValues, SCHMICK_USER : EnvValues,
     SCHMICK_PASS : EnvValues, HEADLESS : HeadlessValues,
     MAX_CONCURRENCY : MaxConcurrencyValues]

\* os.getenv(name, default)
os_getenv(env, name, default) ==
    IF env[name] = "unset" THEN default ELSE env[name]

load_env(env) ==
    [PLAYWRIGHT_API_KEY |-> os_getenv(env, "PLAYWRIGHT_API_KEY", ""),
     SCHMICK_USER       |-> os_getenv(env, "SCHMICK_USER", ""),
     SCHMICK_PASS       |-> os_getenv(env, "SCHMICK_PASS", ""),
     HEADLESS           |-> os_getenv(env, "HEADLESS", "true") = "true",
     MAX_CONCURRENCY    |-> env.MAX_CONCURRENCY]

Missing_none(c) == FALSE

\* not config[var]
Missing(c) == c = ""

missing_vars(config) == {v \in required_vars : Missing(config[v])}

StartupOf(env) ==
    [op |-> "startup", env |-> env, phase |-> "load", semaphore |-> 0,
     playwright |-> FALSE, browser |-> FALSE, error |-> "none"]

\* The process starts with some environment; nothing is initialised.
InitStartup ==
    /\ Quiet
    /\ calc \in {StartupOf(env) : env \in Environments}

StartupFailed(c, e) == [c EXCEPT !.phase = "failed", !.error = e]

\* config = load_env(); validate_required_env(); the storage manager and
\* the semaphore are created.  A ValueError is logged and raised again.
StartupValidate ==
    /\ calc.op = "startup" /\ calc.phase = "load"
    /\ calc' = IF missing_vars(load_env(calc.env)) # {}
               THEN StartupFailed(calc, "ValueError")
               ELSE [calc EXCEPT !.phase = "configured",
                                 !.semaphore = load_env(calc.env).MAX_CONCURRENCY]
    /\ UNCHANGED <<maxConcurrency, permits, file, leaked, run, clients, tracing>>

\* playwright_instance = await async_playwright().start()
StartupPlaywright ==
    /\ calc.op = "startup" /\ calc.phase = "configured"
    /\ \E o \in CallOutcomes :
          calc' = IF o = "ok"
                  THEN [calc EXCEPT !.phase = "playwright", !.playwright = TRUE]
                  ELSE StartupFailed(calc, o)
    /\ UNCHANGED <<maxConcurrency, permits, file, leaked, run, clients, tracing>>

\* browser = await playwright_instance.firefox.launch(...); on return
\* lifespan yields and the application serves requests.
StartupLaunch ==
    /\ calc.op = "startup" /\ calc.phase = "playwright"
    /\ \E o \in CallOutcomes :
          calc' = IF o = "ok"
                  THEN [calc EXCEPT !.phase = "serving", !.browser = TRUE]
                  ELSE StartupFailed(calc, o)
    /\ UNCHANGED <<maxConcurrency, permits, file, leaked, run, clients, tracing>>

NextStartup == StartupValidate \/ StartupPlaywright \/ StartupLaunch

SpecStartup == InitStartup /\ [][NextStartup]_vars

\* ---------------------------------------------------------------------
\* GET /health.

HealthReady_slot(p) == p > 0

\* What health_check waits for before it answers: nothing.
HealthReady(p) == TRUE

\* No answer to GET /health yet.
NoHealth == [op |-> "health", status |-> 0, ok |-> FALSE]

\* GET /health: return {"ok": True}
Health ==
    /\ calc.op = "health"
    /\ HealthReady(permits)
    /\ calc' = [op |-> "health", status |-> 200, ok |-> TRUE]
    /\ UNCHANGED <<maxConcurrency, permits, file, leaked, run, clients, tracing>>

\* The service started without a session file; clients send all their
\* requests at once and probe GET /health at any time.
InitHealth ==
    /\ maxConcurrency \in MaxConcurrencyValues
    /\ permits = maxConcurrency
    /\ file = "absent"
    /\ leaked = 0
    /\ run = [t \in Tasks |-> IdleRun]
    /\ clients = NumReqs
    /\ tracing = FALSE
    /\ calc = NoHealth

NextHealth == Next \/ Health

SpecHealth == InitHealth /\ [][NextHealth]_vars

\* Clients that send all their requests at once to a service with a single
\* slot: requests wait at the gate.
InitQueue ==
    /\ InitGate
    /\ maxConcurrency = 1

\* Every step of the service for request t: all of Next but the arrival of
\* the request, which is the client's choice.
Work(t) ==
    \/ Acquire(t)
    \/ ElLoad(t) \/ ElNewContext(t) \/ ElNewPage(t) \/ ElGoto(t)
    \/ ElObstacle(t) \/ ElFillUser(t) \/ ElFillPass(t) \/ ElClick(t)
    \/ ElVerify(t) \/ ElSave(t)
    \/ PrNewContext(t) \/ PrNewPage(t) \/ PrGotoForm(t) \/ PrWaitForm(t)
    \/ PrFill(t) \/ PrSubmit(t) \/ PrWaitIdle(t) \/ PrGotoResults(t)
    \/ PrWaitTable(t) \/ PrExtract(t) \/ PrSave(t) \/ DebugRespond(t)
    \/ UfRaise(t) \/ UfStart(t) \/ UfLaunch(t) \/ UfNewContext(t) \/ UfNewPage(t)
    \/ UfGotoLogin(t) \/ UfFillUser(t) \/ UfFillPass(t) \/ UfClickLogin(t)
    \/ UfWaitLogin(t) \/ UfGotoForm(t) \/ UfWaitForm(t) \/ UfFill(t)
    \/ UfSubmit(t) \/ UfWaitSubmit(t) \/ UfWaitUrl(t) \/ UfWaitIdle(t)
    \/ UfValidate(t) \/ UfSettle(t)
    \/ UfGotoResults(t) \/ UfWaitTable(t) \/ UfExtract(t)
    \/ ProcessRespond(t) \/ Deliver(t)

\* The service started with the default MAX_CONCURRENCY; clients send one
\* request after the other, so that the capacity of the gate plays no part.
InitLive == Init /\ maxConcurrency = DefaultMaxConcurrency

\* Every awaited browser call returns or times out and the event loop
\* resumes the coroutine that awaited it: a request that can take a step
\* takes one.
SpecLive == InitLive /\ [][Next]_vars /\ \A t \in Tasks : WF_vars(Work(t))

\* The event loop resumes every coroutine that can go on, the waiters of the
\* semaphore included.
SpecQueue == InitQueue /\ [][Next]_vars /\ \A t \in Tasks : WF_vars(Work(t))

TypeOK ==
    /\ maxConcurrency \in MaxConcurrencyValues
    /\ permits \in 0..maxConcurrency
    /\ file \in FileKinds
    /\ leaked \in 0..NumReqs
    /\ \A t \in Tasks : run[t].ctx \in 0..1

(***************************************************************************)
(* Properties.                                                             *)
(***************************************************************************)
\* Positions of the login stage: from the navigation to the login URL to the
\* save of the session (ensure_logged_in) or the pause after the login click
\* (unified flow).
LoginStagePcs ==
    {"el_goto", "el_obstacle", "el_fill_user", "el_fill_pass", "el_click",
     "el_verify", "el_save",
     "uf_goto_login", "uf_fill_user", "uf_fill_pass", "uf_click_login",
     "uf_wait_login"}

RunsInGate == {t \in Tasks : InGate(t)}

C2_ContextsClosedOnExit ==
    \A t \in Tasks :
        run[t].pc = "ret" => run[t].ctx = 0 /\ ~run[t].ownBrowser

\* C3: a run that collected a validation message while the page was still on
\* the form URL never navigates to the results URL, never extracts and never
\* returns an identifier.
C3_ValidationErrorsStopRun ==
    \A t \in Tasks :
        run[t].errs # << >> =>
            /\ ~Did(t, "results_nav")
            /\ ~Did(t, "results_nav_failed")
            /\ ~Did(t, "extract")
            /\ run[t].outcome.k # "return"

\* C4: a run whose obstacle check found the CAPTCHA indicator ends with the
\* exception CaptchaDetectedError.
C4_CaptchaErrorKind ==
    \A t \in Tasks :
        Did(t, "captcha_detected") /\ run[t].pc = "ret" =>
            run[t].outcome = Raised("CaptchaDetectedError")

\* C5: while the login page of a run shows a CAPTCHA or a two-factor prompt,
\* the run has filled no credential, clicked no login button, filled no form
\* and written no session.
C5_NoActionPastObstacle ==
    \A t \in Tasks :
        run[t].obstacle # "none" =>
            /\ ~Did(t, "login_fill_user")
            /\ ~Did(t, "login_fill_pass")
            /\ ~Did(t, "login_click")
            /\ ~Did(t, "form_fill")
            /\ ~Did(t, "login_save_ok")

\* C6: a run navigates to the login URL only after load() of the Session
\* Store returned absent in that run.
C6_LoginOnlyWhenStoreAbsent ==
    \A t \in Tasks : Did(t, "login_nav") => Did(t, "load_none")

\* C7: a run that found the session file unreadable or unparsable got absent
\* from load(), without an exception.
C7_CorruptFileLoadsAsAbsent ==
    \A t \in Tasks :
        Did(t, "file_corrupt") => Did(t, "load_none") /\ ~Did(t, "load_raise")

\* C8: a run whose session save failed after the login has left the login
\* stage normally (it is in process_record or ended there, not with the
\* login stage's error or the save's error), and a run whose session save
\* failed after the extraction returns the extracted identifier.
C8_SaveFailureNotFatal ==
    \A t \in Tasks :
        /\ Did(t, "login_save_fail") =>
              /\ run[t].pc # "el_save"
              /\ ~(run[t].pc = "ret" /\ run[t].outcome.k = "raise"
                   /\ run[t].outcome.exc \in {"LoginError", "IOError"})
        /\ Did(t, "final_save_fail") /\ run[t].pc = "ret" =>
              /\ run[t].outcome.k = "return"
              /\ run[t].outcome.id = run[t].val
              /\ run[t].outcome.id # << >>

\* C8 witness: a run returned after both of its session saves failed.
C8_Witness ==
    \E t \in Tasks :
        /\ run[t].pc = "ret"
        /\ Did(t, "login_save_fail")
        /\ Did(t, "final_save_fail")

\* C9: at most one run is inside the login stage at any time.
C9_LoginSerialized ==
    Cardinality({t \in Tasks : run[t].pc \in LoginStagePcs}) <= 1

\* C10: when a run that loaded the persisted session and was sent back to the
\* login page has ended, the session file is gone.
C10_StaleSessionDeleted ==
    \A t \in Tasks :
        /\ run[t].pc = "ret"
        /\ Did(t, "load_state")
        /\ Did(t, "redirected_to_login")
        => file = "absent"

\* Events of a session save: the one of ensure_logged_in, the one of
\* process_record.
LoginSaveEvents == {"login_save_ok", "login_save_fail"}
FinalSaveEvents == {"final_save_ok", "final_save_fail"}

\* C11: the session file is written only by the save that directly follows
\* the observed post-login indicator and by the save that directly follows
\* the extraction of an identifier at the end of a run; a run that ended
\* without an identifier has made no final save, and none at all when it
\* never saw the post-login indicator.
C11_WritesOnlyAfterLoginOrSuccess ==
    \A t \in Tasks :
        /\ \A i \in 1..Len(run[t].ev) :
              /\ run[t].ev[i] \in LoginSaveEvents =>
                    i > 1 /\ run[t].ev[i - 1] = "login_ok"
              /\ run[t].ev[i] \in FinalSaveEvents =>
                    i > 1 /\ run[t].ev[i - 1] = "extract"
        /\ run[t].pc = "ret" /\ run[t].outcome.k # "return" =>
              /\ Range(run[t].ev) \cap FinalSaveEvents = {}
              /\ ~Did(t, "login_ok") => Range(run[t].ev) \cap LoginSaveEvents = {}

\* C12: a run whose first-cell locator matched no element on the results
\* page does not return an identifier.
C12_NoMatchIsFailure ==
    \A t \in Tasks : Did(t, "extract_demo") => run[t].outcome.k # "return"

\* C13: a /process request whose workflow call raised an exception is not
\* answered 200 and carries no membership value; an exception that is neither
\* a NonRetryableError nor a timeout is answered 500.
C13_ExceptionIsErrorResponse ==
    \A t \in Tasks :
        run[t].pc = "resp" /\ run[t].kind = "process" /\ run[t].outcome.k = "raise" =>
            /\ run[t].response.status >= 400
            /\ run[t].response.membership = << >>
            /\ run[t].outcome.exc \notin NonRetryableErrors \cup {"PlaywrightTimeoutError"}
                  => run[t].response.status = 500

\* C14: applying format_membership_number to its own result gives that result
\* again.
C14_FormatIdempotent ==
    calc.op = "format" /\ calc.n = 2 => calc.twice = calc.once

\* The cell text "ID: 7": a known label prefix followed by the identifier "7".
LabelledCell == <<"I", "D", ":", " ", "7">>

\* C15: a run that started with a valid persisted session and read the cell
\* "ID: 7" has not gone to the login page, and when it returns an identifier
\* that identifier is "7".
C15_LabelledCellCanonical ==
    \A t \in Tasks :
        /\ run[t].pc = "ret"
        /\ Did(t, "session_valid")
        /\ Did(t, "extract")
        /\ run[t].raw = LabelledCell
        => /\ ~Did(t, "login_nav")
           /\ run[t].outcome.k = "return" => run[t].outcome.id = <<"7">>

\* A form fill has run.
Filled == calc.op = "fill" /\ calc.n = 1

\* Fields on which the form fill issued a browser call.
TouchedFields == {calc.acts[i].field : i \in 1..Len(calc.acts)}

\* C16: every browser call of a form fill is on a field that the record
\* carries and that FIELD_MAPPING maps to a key of the selector table.
C16_FillOnlyMappedPresent ==
    Filled =>
        \A f \in TouchedFields :
            /\ f \in DOMAIN calc.d
            /\ f \in DOMAIN FIELD_MAPPING
            /\ FIELD_MAPPING[f] \in SelectorKeys

\* C16 witness: a form fill that wrote a mapped field of a record which also
\* carries a non-empty field without mapping.
C16_Witness ==
    /\ Filled
    /\ \E i \in 1..Len(calc.acts) : calc.acts[i].call = "fill" /\ calc.acts[i].ok
    /\ \E f \in DOMAIN calc.d : f \notin DOMAIN FIELD_MAPPING /\ Truthy(calc.d[f])

\* C17: a form fill issues no browser call on a field whose value is null or
\* the empty string.
C17_BlankFieldsSkipped ==
    Filled => \A f \in TouchedFields : calc.d[f] \notin {"None", ""}

\* C18: whatever fields fail, the form fill ends normally and has issued a
\* call on every field it issues a call on when nothing fails.
C18_FieldFailureNotFatal ==
    Filled =>
        /\ calc.done
        /\ TouchedFields =
              {a.field : a \in Range(FillOf(calc.flow, calc.d, << >>).acts)}

\* C18 witness: a form fill in which the call on one field raised and a later
\* field was written.
C18_Witness ==
    /\ Filled
    /\ calc.done
    /\ \E i \in 1..Len(calc.acts) :
          /\ ~calc.acts[i].ok
          /\ \E j \in (i + 1)..Len(calc.acts) :
                calc.acts[j].ok /\ calc.acts[j].field # calc.acts[i].field

\* C19: a run that has taken a slot of the semaphore eventually has its
\* response built with the slot released (again and again no run is between
\* acquire and release, and a run leaves the gate only by its response),
\* and whenever no run is between acquire and release every slot is free.
C19_RunsTerminate ==
    /\ []<>(RunsInGate = {})
    /\ [](RunsInGate = {} => permits = maxConcurrency)

\* C19 witness: the workflow of a run raised, the response is built and all
\* slots are free.
C19_Witness ==
    \E t \in Tasks :
        /\ run[t].pc = "resp"
        /\ run[t].outcome.k = "raise"
        /\ permits = maxConcurrency

\* C20: when a run has ended because validation messages were found on the
\* form page, its outcome is a failure that carries all these messages in the
\* order they were found.
C20_ValidationFailureCarriesMessages ==
    \A t \in Tasks :
        run[t].pc = "ret" /\ Did(t, "validation_failed") =>
            /\ run[t].outcome.k # "return"
            /\ OutcomeMessages(run[t].outcome) = run[t].errs

\* C21: a /process request whose workflow failed is answered with one error
\* status and no membership: 408 when a browser wait that timed out ended the
\* run, 400 when the failure is a NonRetryableError, 500 otherwise.  (The
\* exception of the "browser closed" branch is the matter of C13.)
C21_FailureStatus ==
    \A t \in Tasks :
        /\ run[t].pc = "resp" /\ run[t].kind = "process"
        /\ run[t].outcome.k # "return"
        /\ run[t].outcome.exc # "TargetClosedError"
        =>
            /\ run[t].response.membership = << >>
            /\ run[t].response.status =
                  IF Did(t, "wait_timeout") \/ run[t].outcome.exc = "PlaywrightTimeoutError"
                  THEN 408
                  ELSE IF run[t].outcome.exc \in NonRetryableErrors THEN 400 ELSE 500

\* C22: a POST /process request whose key is missing or wrong is answered 401
\* and one whose key is right and whose body is invalid is answered 422, both
\* without any step of a workflow; a request that took a step past the
\* admission presented the configured key and a valid body.
C22_RejectedBeforeRun ==
    \A t \in Tasks :
        run[t].kind = "process" =>
            /\ run[t].req.key # "right" \/ run[t].req.body # "valid" =>
                  /\ run[t].pc = "resp"
                  /\ run[t].ev = <<"rejected">>
                  /\ run[t].ctx = 0 /\ ~run[t].ownBrowser
                  /\ run[t].outcome = NoOutcome
                  /\ run[t].response.status =
                        IF run[t].req.key # "right" THEN 401 ELSE 422
            /\ run[t].req.key = "right" /\ run[t].req.body = "valid" =>
                  ~Did(t, "rejected")

\* C22 witness: a /process request with the right key and an invalid body has
\* been answered while every slot of the semaphore is free.
C22_Witness ==
    \E t \in Tasks :
        /\ run[t].kind = "process"
        /\ run[t].pc = "resp"
        /\ run[t].req = [key |-> "right", body |-> "bad_email"]
        /\ run[t].response.status = 422
        /\ permits = maxConcurrency

\* C23: in every state of the running service GET /health can be answered,
\* whatever the number of free slots of the semaphore, and its answer is 200
\* with ok true.
C23_HealthAlwaysAnswers ==
    calc.op = "health" =>
        /\ ENABLED Health
        /\ calc # NoHealth => calc.status = 200 /\ calc.ok

\* C23 witness: GET /health has been answered and every slot of the
\* semaphore is held by a running workflow.
C23_Witness ==
    /\ calc.op = "health"
    /\ calc.status = 200
    /\ permits = 0
    /\ Cardinality(RunsInGate) = maxConcurrency

\* C24: when the API key, the site username or the site password is unset
\* or empty in the environment, startup fails with the validation error
\* before playwright is started or the browser launched, and the service
\* never serves.
C24_MissingConfigFailsStartup ==
    (/\ calc.op = "startup"
     /\ \E v \in required_vars : calc.env[v] \in {"unset", ""})
    =>
        /\ calc.phase \in {"load", "failed"}
        /\ ~calc.playwright
        /\ ~calc.browser
        /\ calc.phase = "failed" => calc.error = "ValueError"

\* C24 witness: startup has failed on an empty site password, every other
\* required value being set, with no browser launched.
C24_Witness ==
    /\ calc.op = "startup"
    /\ calc.phase = "failed"
    /\ calc.env.PLAYWRIGHT_API_KEY = "set"
    /\ calc.env.SCHMICK_USER = "set"
    /\ calc.env.SCHMICK_PASS = ""
    /\ calc.error = "ValueError"
    /\ ~calc.browser

\* Events of the stages that follow the login.
FormStageEvents == {"form_nav", "form_fill", "submit", "submit_js"}

\* C25: a run reaches the form (navigation to the form URL, fill, submit)
\* only after its login was confirmed by the post-login indicator or a
\* persisted session was loaded.
C25_FormOnlyAfterConfirmedLogin ==
    \A t \in Tasks :
        \A i \in 1..Len(run[t].ev) :
            run[t].ev[i] \in FormStageEvents =>
                \E j \in 1..(i - 1) : run[t].ev[j] \in {"login_ok", "load_state"}

\* The stage an event belongs to: 1 login, 2 form fill, 3 submit,
\* 4 validation check, 5 result extraction; 0 for the other events.
StageOf(e) ==
    CASE e \in {"login_nav", "login_fill_user", "login_fill_pass", "login_click",
                "login_ok", "login_unverified", "login_save"} -> 1
      [] e \in {"form_nav", "form_fill"} -> 2
      [] e \in {"submit", "submit_js", "submit_failed", "navigation_detected", "no_navigation",
                "url_change_detected", "no_url_change", "idle_wait"} -> 3
      [] e \in {"validate", "validation_failed", "validation_error", "left_form"} -> 4
      [] e \in {"results_nav", "results_nav_failed", "table_container",
                "generic_table", "extract", "extract_demo"} -> 5
      [] OTHER -> 0

StagesDone(t) == {StageOf(run[t].ev[i]) : i \in 1..Len(run[t].ev)} \ {0}

\* C26: the stage events of a run occur in the order login, form fill,
\* submit, validation check, result extraction, no stage is entered again
\* after a later one, and a run answers with an identifier only after
\* form fill, submit, validation check and extraction were executed and
\* the login stage was executed or a persisted session loaded.
C26_StagesInOrder ==
    \A t \in Tasks :
        /\ \A i \in 1..Len(run[t].ev), j \in 1..Len(run[t].ev) :
              (i < j /\ StageOf(run[t].ev[i]) # 0 /\ StageOf(run[t].ev[j]) # 0)
                 => StageOf(run[t].ev[i]) <= StageOf(run[t].ev[j])
        /\ (run[t].pc = "resp" /\ run[t].response.membership # << >>)
              => /\ {2, 3, 4, 5} \subseteq StagesDone(t)
                 /\ 1 \in StagesDone(t) \/ Did(t, "load_state")

\* The state of the login stage a run of ensure_logged_in is in; Authenticated
\* and Failed are how the function is left (return, raise).
LoginState(r) ==
    CASE r.pc \in {"el_new_context", "el_new_page"} -> "NoSession"
      [] r.pc \in {"el_goto", "el_obstacle"} -> "Navigating"
      [] r.pc \in {"el_fill_user", "el_fill_pass"} -> "Filling"
      [] r.pc = "el_click" -> "Submitting"
      [] r.pc \in {"el_verify", "el_save"} -> "Verifying"
      [] r.pc = "pr_new_context" -> "Authenticated"
      [] r.pc = "ret" -> "Failed"
      [] OTHER -> "Outside"

LoginTransitions ==
    {<<"NoSession", "Navigating">>, <<"Navigating", "Filling">>,
     <<"Filling", "Submitting">>, <<"Submitting", "Verifying">>,
     <<"Verifying", "Authenticated">>} \cup
    {<<a, "Failed">> : a \in {"NoSession", "Navigating", "Filling",
                              "Submitting", "Verifying"}}

LoginStates == {a[1] : a \in LoginTransitions}

\* C27: a step of the login stage that changes its state follows
\* NoSession -> Navigating -> Filling -> Submitting -> Verifying ->
\* (Authenticated | Failed); the machine is entered only in NoSession when
\* the load found no session; the session file is written only by the step
\* into Authenticated, which follows an observed post-login indicator and
\* always attempts the save; a step into Failed writes nothing.
C27_LoginStateMachine ==
    [][\A t \in Tasks :
          LET a == LoginState(run[t])
              b == LoginState(run'[t])
              saved == Len(run'[t].ev) > Len(run[t].ev)
                       /\ run'[t].ev[Len(run'[t].ev)] \in LoginSaveEvents
          IN  /\ (a \in LoginStates /\ a # b) => <<a, b>> \in LoginTransitions
              /\ (a \notin LoginStates /\ b \in LoginStates)
                    => run[t].pc = "el_load" /\ b = "NoSession"
              /\ (a \in LoginStates /\ b = "Authenticated")
                    => Did(t, "login_ok") /\ saved
              /\ (a \in LoginStates /\ run'[t] # run[t] /\ b # "Authenticated")
                    => file' = file /\ ~saved
      ]_vars

\* C27 witness: a login went through every state, observed the post-login
\* indicator and saved the session.
C27_Witness ==
    \E t \in Tasks :
        /\ run[t].pc = "pr_new_context"
        /\ Did(t, "login_click") /\ Did(t, "login_ok") /\ Did(t, "login_save_ok")
        /\ file = "valid"

\* The last event of the login stage before it failed.
LastBefore(t, e) ==
    LET i == CHOOSE k \in 1..Len(run[t].ev) : run[t].ev[k] = e
    IN  IF i = 1 THEN "none" ELSE run[t].ev[i - 1]

\* C28: when a wait of ensure_logged_in timed out (loading the login URL,
\* waiting for a credential field, waiting for the post-login indicator) the
\* run has left the login stage with a LoginError, which is non-retryable,
\* holds no context, has written no session and is never answered with an
\* identifier.
C28_LoginTimeoutIsLoginError ==
    \A t \in Tasks :
        Did(t, "login_timeout") =>
            /\ run[t].pc \in {"ret", "resp"}
            /\ run[t].outcome = Raised("LoginError")
            /\ "LoginError" \in NonRetryableErrors
            /\ run[t].ctx = 0
            /\ ~Did(t, "login_save_ok") /\ ~Did(t, "form_nav")
            /\ run[t].pc = "resp" => run[t].response.membership = << >>

\* C28 witness: the wait for the post-login indicator timed out after the
\* login form was submitted, and the run left with the LoginError.
C28_Witness ==
    \E t \in Tasks :
        /\ Did(t, "login_timeout")
        /\ LastBefore(t, "login_timeout") = "login_click"
        /\ run[t].pc = "ret"
        /\ run[t].outcome = Raised("LoginError")

\* The event a step of run t has just logged, "none" when it logged nothing.
Logged(t) ==
    IF Len(run'[t].ev) > Len(run[t].ev) THEN run'[t].ev[Len(run'[t].ev)] ELSE "none"

\* C29: after the submit click the wait for a navigation comes first, the
\* wait for a URL change only after it failed, the pause only after that
\* failed too; a wait that succeeds ends the waiting, and whatever the
\* three waits do the run goes on to the validation check, with the URL of
\* the page at that time.
C29_SubmitSignalsInOrder ==
    [][\A t \in Tasks :
          run'[t] # run[t] =>
             /\ run[t].pc = "uf_wait_submit" =>
                   \/ Logged(t) = "navigation_detected" /\ run'[t].pc = "uf_validate"
                   \/ Logged(t) = "no_navigation" /\ run'[t].pc = "uf_wait_url"
             /\ run[t].pc = "uf_wait_url" =>
                   \/ Logged(t) = "url_change_detected" /\ run'[t].pc = "uf_validate"
                   \/ Logged(t) = "no_url_change" /\ run'[t].pc = "uf_wait_idle"
             /\ run[t].pc = "uf_wait_idle" =>
                   /\ Logged(t) = "idle_wait"
                   /\ run'[t].pc = "uf_validate"
             /\ run'[t].pc = "uf_wait_submit" => Logged(t) \in {"submit", "submit_js"}
             /\ (run'[t].pc = "uf_validate" /\ run[t].pc # "uf_validate")
                   => run'[t].url \in PostSubmitUrls
      ]_vars

\* C29 witness: none of the three signals occurred and the run is at the
\* validation check, still on the form URL.
C29_Witness ==
    \E t \in Tasks :
        /\ run[t].pc = "uf_validate"
        /\ Did(t, "no_navigation") /\ Did(t, "no_url_change")
        /\ Did(t, "idle_wait")
        /\ run[t].url = FormUrl

\* C30: when the wait for a URL change has ended without the signal, the
\* page URL is the one the page had before the submit click (the form URL
\* the run navigated to).
C30_UrlChangeVersusPreSubmit ==
    \A t \in Tasks :
        (run[t].pc = "uf_wait_idle" /\ Did(t, "form_nav")) => run[t].url = FormUrl

\* C31: at the validation check, a page that is no longer on the form URL
\* has no validation-error detection run on it and the run goes on towards
\* extraction; a page still on the form URL either yields messages (the run
\* fails) or the run goes on towards extraction.
C31_ValidationOnlyOnFormUrl ==
    [][\A t \in Tasks :
          (run[t].pc = "uf_validate" /\ run'[t] # run[t]) =>
             /\ run[t].url # FormUrl =>
                   Logged(t) = "left_form" /\ run'[t].pc = "uf_settle"
             /\ run[t].url = FormUrl =>
                   Logged(t) = "validation_failed" \/ run'[t].pc = "uf_settle"
      ]_vars

\* C32: retry_async calls func at most max_retries + 1 times; it returns the
\* value of the first call that succeeds and that call is the last one; the
\* sleep after failed call k (from 0) is base_delay * backoff_factor^k and
\* no sleep follows the last call; when every one of max_retries + 1 calls
\* failed with a retryable exception, the exception of the last call is
\* raised.
C32_RetryBounded ==
    calc.op = "retry" =>
        LET calls == Len(calc.outs) IN
        /\ calls <= calc.max_retries + 1
        /\ \A k \in 1..Len(calc.sleeps) :
              calc.sleeps[k] = calc.base_delay * Pow(calc.backoff_factor, k - 1)
        /\ Len(calc.sleeps) = IF calc.pc = "call" THEN calls
                              ELSE IF calls = 0 THEN 0 ELSE calls - 1
        /\ calc.pc = "returned" =>
              /\ calc.outs[calls] = "ok"
              /\ calc.result = [k |-> "return", call |-> calls - 1, exc |-> ""]
              /\ \A i \in 1..(calls - 1) : calc.outs[i] # "ok"
        /\ (calc.pc = "raised" /\ \A i \in 1..calls : Retryable(calc.outs[i])) =>
              /\ calls = calc.max_retries + 1
              /\ calc.result = [k |-> "raise", call |-> calls - 1, exc |-> calc.outs[calls]]

\* C32 witness: with max_retries = 2 every call failed with a retryable
\* exception and the third one's exception is raised after two sleeps.
C32_Witness ==
    /\ calc.op = "retry"
    /\ calc.max_retries = 2
    /\ calc.pc = "raised"
    /\ calc.outs = <<"RetryableError", "RetryableError", "FormSubmissionError">>
    /\ calc.result.exc = "FormSubmissionError"
    /\ Len(calc.sleeps) = 2

\* C33: an exception of func that is not retryable is the last thing that
\* happens in retry_async: it is raised by the call in which it occurred,
\* with no call and no sleep after it.
C33_NonRetryableRaisedAtOnce ==
    calc.op = "retry" =>
        \A i \in 1..Len(calc.outs) :
            (calc.outs[i] # "ok" /\ calc.outs[i] \notin {"RetryableError", "FormSubmissionError"}) =>
                /\ i = Len(calc.outs)
                /\ calc.pc = "raised"
                /\ calc.result = [k |-> "raise", call |-> i - 1, exc |-> calc.outs[i]]
                /\ Len(calc.sleeps) = i - 1

\* C33 witness: a LoginError in the second call, retries being left, is
\* raised.
C33_Witness ==
    /\ calc.op = "retry"
    /\ calc.max_retries = 2
    /\ calc.outs = <<"RetryableError", "LoginError">>
    /\ calc.pc = "raised"
    /\ calc.result.exc = "LoginError"

\* C34: in a /process run the values filled into the form are those of the
\* record in the body of the request, and a membership in the response is
\* the text the extraction of that run took from the results table.
C34_DataFlowsForward ==
    \A t \in Tasks :
        run[t].kind = "process" =>
            /\ Did(t, "form_fill") => run[t].filled = run[t].req.body
            /\ (run[t].pc = "resp" /\ run[t].response.membership # << >>) =>
                  /\ Did(t, "extract")
                  /\ run[t].response.membership = Strip(run[t].raw)

\* Browser processes of the running service: the one startup_playwright
\* launched and those launched by runs and not yet closed.
BrowserProcesses == 1 + Cardinality({t \in Tasks : run[t].ownBrowser})

\* C35: the service has exactly one browser process, the one launched at
\* startup: no run holds a browser process it launched itself.
C35_OneSharedBrowser ==
    /\ BrowserProcesses = 1
    /\ \A t \in Tasks : ~run[t].ownBrowser

\* C36: a run answers with a membership only when it navigated to the
\* results URL, found the results table container there and took the text
\* from the table.
C36_IdentifierFromResultsPage ==
    \A t \in Tasks :
        (run[t].pc = "resp" /\ run[t].response.membership # << >>) =>
            /\ Did(t, "results_nav")
            /\ run[t].kind = "process" => Did(t, "table_container")
            /\ Did(t, "extract")

\* C37: when the regular click and the JavaScript click of the submit
\* control have both failed, the run has ended with a failure: nothing but
\* the record of a timeout follows in its history, no identifier is
\* returned, and the context and the browser of the run are closed.
C37_SubmitFailureEndsRun ==
    \A t \in Tasks :
        Did(t, "submit_failed") =>
            /\ run[t].pc \in {"ret", "resp"}
            /\ run[t].outcome = ReturnedNone
            /\ run[t].ev[Len(run[t].ev)] \in {"submit_failed", "wait_timeout"}
            /\ \A i \in 1..Len(run[t].ev) : StageOf(run[t].ev[i]) \notin {4, 5}
            /\ \A e \in {"navigation_detected", "no_navigation", "url_change_detected",
                         "no_url_change", "idle_wait"} : ~Did(t, e)
            /\ run[t].ctx = 0 /\ ~run[t].ownBrowser
            /\ run[t].pc = "resp" =>
                  run[t].response = [status |-> 500, membership |-> << >>]

\* C37 witness: both clicks failed after the form was filled and the run
\* is answered with the error.
C37_Witness ==
    \E t \in Tasks :
        /\ Did(t, "form_fill") /\ Did(t, "submit_failed")
        /\ run[t].pc = "resp"
        /\ run[t].response.status = 500

\* C38: the step in which a query of the validation check raised leaves the
\* run running, at the pause before the results navigation, whatever
\* messages had been collected.
C38_ValidationCheckErrorSwallowed ==
    [][\A t \in Tasks :
          Logged(t) = "validation_error" =>
             /\ run'[t].pc = "uf_settle"
             /\ run'[t].outcome = NoOutcome
             /\ run'[t].ctx = run[t].ctx
      ]_vars

\* C38 witness: the validation check raised after messages had been
\* collected, and the run went on to extract an identifier.
C38_Witness ==
    \E t \in Tasks :
        /\ Did(t, "validation_error")
        /\ run[t].errs # << >>
        /\ Did(t, "results_nav") /\ Did(t, "extract")
        /\ run[t].pc = "resp"
        /\ run[t].response.membership # << >>

Waiting == {t \in Tasks : run[t].pc = "waiting"}

SaveCalled(t) ==
    /\ run[t].pc \in {"el_save", "pr_save"}
    /\ run'[t] # run[t]

\* The storage state task t passes to storage_manager.save.
SaveArgument(t) == IF run[t].pc = "el_save" THEN "valid" ELSE run[t].sess

\* C40: the session file changes only inside a call of save(), which is one
\* step of one run, and a call of save() that changes the file leaves in it
\* exactly the state that was passed to it, however the runs interleave: the
\* file never holds a partial write, and it holds the state of the last save
\* that wrote it.
C40_SessionStoreAtomic ==
    [][file' # file =>
          \E t \in Tasks : SaveCalled(t) /\ file' = SaveArgument(t)]_vars

====
